---- MODULE Spec2Model ----
(***************************************************************************)
(* Model of scripts/generate_post.py: get_product_details (canonicalise    *)
(* the URL, fetch with up to three attempts and a growing delay, detect    *)
(* the CAPTCHA page, extract title, price and image) and                   *)
(* generate_post_from_urls (read ASSOCIATE_TAG and urls.txt, fetch the     *)
(* first five URLs one after the other, render and write the post).        *)
(*                                                                         *)
(* Strings are sequences of tokens: a token is one character, or a literal *)
(* chunk of the program text ("https://www.amazon.co.jp/dp/").             *)
(* Concatenation is \o. A Python value that may be None is a sequence of   *)
(* length 0 (None) or 1 (the value).                                       *)
(***************************************************************************)
EXTENDS Integers, Sequences, FiniteSets, TLC

(* ------------------------------------------------------------------ *)
(* Program constants                                                    *)
(* ------------------------------------------------------------------ *)

\* {10} of the ASIN pattern
AsinLen == 10

\* range(3)
MaxAttempts == 3

\* urls[:5]
BatchLimit == 5

\* the factor of time.sleep(2 * (attempt + 1))
DelayFactor == 2

\* time.sleep(1) between two URLs
PauseSeconds == 1

\* the status of a response raise_for_status() lets through
StatusOk == 200

\* a status raise_for_status() turns into an HTTPError
StatusUnavailable == 503

\* no response at all: requests.get raised (timeout, connection error)
StatusNone == 0

(* ------------------------------------------------------------------ *)
(* Bounds of the model                                                  *)
(* ------------------------------------------------------------------ *)

\* the longest urls.txt of the batch specification, in lines
MaxLines == 6

(* ------------------------------------------------------------------ *)
(* Values and strings                                                   *)
(* ------------------------------------------------------------------ *)

None == << >>

Some(v) == << v >>

\* Python truthiness of an optional string: None and "" are false
Truthy(opt) == opt # None /\ opt[1] # << >>

Whitespace == {" ", "\n"}

UpperDigit ==
  {"A","B","C","D","E","F","G","H","I","J","K","L","M","N","O","P","Q","R",
   "S","T","U","V","W","X","Y","Z","0","1","2","3","4","5","6","7","8","9"}

Lower ==
  {"a","b","c","d","e","f","g","h","i","j","k","l","m","n","o","p","q","r",
   "s","t","u","v","w","x","y","z"}

\* str.strip(): drop the leading and the trailing whitespace
RECURSIVE LStrip(_)
LStrip(s) ==
  IF s = << >> THEN << >>
  ELSE IF Head(s) \in Whitespace THEN LStrip(Tail(s)) ELSE s

RECURSIVE RStrip(_)
RStrip(s) ==
  IF s = << >> THEN << >>
  ELSE IF s[Len(s)] \in Whitespace THEN RStrip(SubSeq(s, 1, Len(s) - 1)) ELSE s

Strip(s) == RStrip(LStrip(s))

\* str(x) inside an f-string: None prints as the word None
StrOf(opt) == IF opt = None THEN << "None" >> ELSE opt[1]

(* ------------------------------------------------------------------ *)
(* get_product_details: URL normalisation                               *)
(* ------------------------------------------------------------------ *)

DpPrefix == << "/", "d", "p", "/" >>

\* positions where r'/dp/([A-Z0-9]{width})' matches
AsinMatchesWidth(url, width) ==
  { i \in 1..Len(url) :
      /\ i + Len(DpPrefix) + width - 1 <= Len(url)
      /\ SubSeq(url, i, i + Len(DpPrefix) - 1) = DpPrefix
      /\ \A k \in 0..(width - 1) : url[i + Len(DpPrefix) + k] \in UpperDigit }

\* re.search with a group of the given width: the leftmost match's group, or None
AsinSearchWidth(url, width) ==
  IF AsinMatchesWidth(url, width) = {} THEN None
  ELSE LET i == CHOOSE j \in AsinMatchesWidth(url, width) :
                   \A k \in AsinMatchesWidth(url, width) : j <= k
       IN  Some(SubSeq(url, i + Len(DpPrefix), i + Len(DpPrefix) + width - 1))

\* the pattern written one character short, r'/dp/([A-Z0-9]{9})'
AsinSearchShort(url) == AsinSearchWidth(url, AsinLen - 1)

\* a group that runs on to the end of the URL, r'/dp/([A-Z0-9]{10}.*)'
AsinSearchWithTail(url) ==
  IF AsinMatchesWidth(url, AsinLen) = {} THEN None
  ELSE LET i == CHOOSE j \in AsinMatchesWidth(url, AsinLen) :
                   \A k \in AsinMatchesWidth(url, AsinLen) : j <= k
       IN  Some(SubSeq(url, i + Len(DpPrefix), Len(url)))

\* re.search(r'/dp/([A-Z0-9]{10})', url)
AsinSearch(url) == AsinSearchWidth(url, AsinLen)

\* f"https://www.amazon.co.jp/dp/{asin}"
NormalizedUrl(asin) == << "https://www.amazon.co.jp/dp/" >> \o asin

AffiliateUrl(asin, associate_tag) ==
  << "https://www.amazon.co.jp/dp/" >> \o asin \o << "/?tag=" >> \o associate_tag

(* ------------------------------------------------------------------ *)
(* The remote site: what one GET may bring back                         *)
(* ------------------------------------------------------------------ *)

\* a response: status StatusNone stands for requests.get raising; marker is
\* "Amazon CAPTCHA" in response.text; title and price are the text of the
\* #productTitle and .a-price .a-offscreen elements (None: no such element);
\* image is the #landingImage element (None: no element, Some(None): an
\* element without a src attribute, Some(Some(s)): src = s)
Response(status, marker, title, price, image) ==
  [status |-> status, marker |-> marker, title |-> title, price |-> price,
   image |-> image]

ConnectionFailure == Response(StatusNone, FALSE, None, None, None)

HttpFailure == Response(StatusUnavailable, FALSE, None, None, None)

TitleTexts == { << " " >>, << " ", "x", "\n" >>, << "y" >> }

PriceTexts == { << >>, << "9" >> }

ImageSrc == << "i" >>

ImageElements == { None, Some(None), Some(Some(ImageSrc)) }

Optional(S) == { None } \cup { Some(v) : v \in S }

\* pages without the CAPTCHA marker: every combination of the three anchors
NormalPages ==
  { Response(StatusOk, FALSE, t, p, i) :
      t \in Optional(TitleTexts), p \in Optional(PriceTexts), i \in ImageElements }

\* pages that carry the marker: the bare challenge page, and one that has
\* the marker next to a full product
CaptchaPages ==
  { Response(StatusOk, TRUE, None, None, None),
    Response(StatusOk, TRUE, Some(<< "y" >>), Some(<< "9" >>), Some(Some(ImageSrc))) }

\* every response of the single-fetch specification
Responses == { ConnectionFailure, HttpFailure } \cup CaptchaPages \cup NormalPages

\* the responses of the batch specification
BatchResponses ==
  { ConnectionFailure,
    Response(StatusOk, TRUE, None, None, None),
    Response(StatusOk, FALSE, Some(<< " ", "x", "\n" >>), Some(<< "9" >>), Some(Some(ImageSrc))),
    Response(StatusOk, FALSE, Some(<< "y" >>), Some(<< "9" >>), None),
    Response(StatusOk, FALSE, Some(<< "y" >>), None, Some(Some(ImageSrc))),
    Response(StatusOk, FALSE, Some(<< "y" >>), Some(<< "9" >>), Some(None)) }

(* ------------------------------------------------------------------ *)
(* get_product_details: the steps on one response                       *)
(* ------------------------------------------------------------------ *)

\* requests.get raised, or raise_for_status() raised on a 4xx/5xx status
RaisesRequestException(r) == r.status = StatusNone \/ r.status >= 400

\* "Amazon CAPTCHA" in response.text
IsCaptcha(r) == r.marker

\* element.get_text(strip=True) if element else None
ElementText(el) == IF el = None THEN None ELSE Some(Strip(el[1]))

\* a lookup that raises also when there is no image element at all
ImageRaisesAlsoWhenAbsent(r) == r.image = None \/ r.image[1] = None

\* image_element['src'] raises KeyError when the element has no src
ImageRaisesKeyError(r) == r.image # None /\ r.image[1] = None

\* image_element['src'] if image_element else None
ImageUrl(r) == IF r.image = None THEN None ELSE r.image[1]

\* a check that lets a record through when only one of the two is there
MissingBoth(title, price) == ~Truthy(title) /\ ~Truthy(price)

\* a check that forgets the price
MissingTitle(title, price) == ~Truthy(title)

\* if not title or not price
MissingTitleOrPrice(title, price) == ~Truthy(title) \/ ~Truthy(price)

\* a dict whose image address carries the tag too
ProductDictTaggedImage(r, asin_, tag_) ==
  [title |-> ElementText(r.title), price |-> ElementText(r.price),
   url |-> AffiliateUrl(asin_, tag_),
   image_url |-> IF ImageUrl(r) = None THEN None
                 ELSE Some(ImageUrl(r)[1] \o << "?tag=" >> \o tag_)]

\* the dict of lines 58-63
ProductDict(r, asin_, tag_) ==
  [title |-> ElementText(r.title), price |-> ElementText(r.price),
   url |-> AffiliateUrl(asin_, tag_), image_url |-> ImageUrl(r)]

\* a delay that does not grow
BackoffFlat(attempt_) == DelayFactor

\* a delay counted from the zero-based attempt number
BackoffFromZero(attempt_) == DelayFactor * attempt_

\* 2 * (attempt + 1)
Backoff(attempt_) == DelayFactor * (attempt_ + 1)

(* ------------------------------------------------------------------ *)
(* Inputs: the environment and urls.txt                                 *)
(* ------------------------------------------------------------------ *)

Host == << "https://www.amazon.co.jp" >>

AsinA == << "B", "0", "8", "N", "5", "W", "R", "W", "N", "W" >>

AsinB == << "4", "0", "6", "5", "1", "2", "3", "4", "5", "X" >>

\* a product URL, as a line of the file (with its line end)
UrlA == Host \o DpPrefix \o AsinA \o << "\n" >>

\* the same product with path noise and query parameters
UrlANoisy ==
  << " " >> \o Host \o << "/", "x", "-", "y" >> \o DpPrefix \o AsinA
    \o << "/", "r", "e", "f", "=", "s", "r", "?", "k", "=", "1", "&", "t", "a", "g", "=", "z" >>
    \o << "\n" >>

UrlB == Host \o DpPrefix \o AsinB \o << "?", "t", "h", "=", "1", "\n" >>

\* eleven characters after /dp/
UrlLongId == Host \o DpPrefix \o AsinA \o << "Q", "\n" >>

\* nine characters after /dp/
UrlShortId == Host \o DpPrefix \o SubSeq(AsinA, 1, AsinLen - 1) \o << "/", "\n" >>

\* ten alphanumeric characters, one of them lower case
UrlLowerId ==
  Host \o DpPrefix \o << "b" >> \o SubSeq(AsinA, 2, AsinLen) \o << "\n" >>

\* ten characters of the pattern, not after /dp/
UrlGpProduct ==
  Host \o << "/", "g", "p", "/", "p", "r", "o", "d", "u", "c", "t", "/" >> \o AsinA
    \o << "\n" >>

\* no path at all
UrlHome == Host \o << "/", "\n" >>

BlankLine == << " ", "\n" >>

\* the lines of the single-fetch specification
FetchLines ==
  { UrlA, UrlANoisy, UrlB, UrlLongId, UrlShortId, UrlLowerId, UrlGpProduct, UrlHome }

\* the lines of the batch specification
BatchLines == { UrlA, UrlHome }

SeqsUpTo(S, n) == UNION { [1..k -> S] : k \in 0..n }

\* ASSOCIATE_TAG: unset, set to the empty string, set
Tags == { None, Some(<< >>), Some(<< "t", "-", "2", "2" >>) }

\* urls.txt: missing (None), or its lines
BatchFiles ==
  { None, Some(<< BlankLine >>), Some(<< BlankLine, UrlA, BlankLine, UrlHome >>) }
    \cup { Some(f) : f \in SeqsUpTo(BatchLines, MaxLines) }

FetchFiles ==
  { None, Some(<< BlankLine >>) } \cup { Some(<< l >>) : l \in FetchLines }

(* ------------------------------------------------------------------ *)
(* State                                                                *)
(* ------------------------------------------------------------------ *)

VARIABLES
  pc,            \* where the program stands
  env_tag,       \* os.getenv("ASSOCIATE_TAG")
  urls_file,     \* urls.txt
  urls,          \* generate_post_from_urls: urls
  idx,           \* position of the for loop in urls[:5], from 1
  products,      \* generate_post_from_urls: products
  details,       \* what get_product_details returned
  url,           \* get_product_details: url
  asin,          \* get_product_details: asin
  attempt,       \* get_product_details: attempt
  response,      \* get_product_details: response
  trace,         \* what the current call did: requests, responses, sleeps, prints
  inflight,      \* positions of the URLs with a request on the wire
  returns,       \* what each call of the batch returned, in call order
  built,         \* the page each returned record was built from, in call order
  surfaced,      \* the failures returned so far: which return statement, what value
  pauses,        \* the seconds the loop spent in time.sleep(1)
  markdown,      \* generate_post_from_urls: markdown_content
  post           \* the file under content/posts

vars ==
  << pc, env_tag, urls_file, urls, idx, products, details, url, asin, attempt,
     response, trace, inflight, returns, built, surfaced, pauses, markdown, post >>

\* [line.strip() for line in f if line.strip()]
RECURSIVE ReadLines(_)
ReadLines(f) ==
  IF f = << >> THEN << >>
  ELSE IF Strip(Head(f)) # << >> THEN << Strip(Head(f)) >> \o ReadLines(Tail(f))
       ELSE ReadLines(Tail(f))

\* a slice that takes one URL more
FirstSix(us) == SubSeq(us, 1, IF Len(us) < BatchLimit + 1 THEN Len(us) ELSE BatchLimit + 1)

\* the slice walked from its end
FirstFiveReversed(us) ==
  LET n == IF Len(us) < BatchLimit THEN Len(us) ELSE BatchLimit
  IN  [i \in 1..n |-> us[n + 1 - i]]

\* urls[:5]
FirstFive(us) == SubSeq(us, 1, IF Len(us) < BatchLimit THEN Len(us) ELSE BatchLimit)

InitWith(files) ==
  /\ pc = "start"
  /\ env_tag \in Tags
  /\ urls_file \in files
  /\ urls = << >>
  /\ idx = 0
  /\ products = << >>
  /\ details = None
  /\ url = << >>
  /\ asin = << >>
  /\ attempt = 0
  /\ response = None
  /\ trace = << >>
  /\ inflight = {}
  /\ returns = << >>
  /\ built = << >>
  /\ surfaced = {}
  /\ pauses = 0
  /\ markdown = None
  /\ post = None

Init == InitWith(BatchFiles)

InitFetch == InitWith(FetchFiles)

(* ------------------------------------------------------------------ *)
(* generate_post_from_urls: start-up                                    *)
(* ------------------------------------------------------------------ *)

Requested(u) == << "request", u >>

Received(r) == << "response", r >>

Slept(n) == << "sleep", n >>

Printed(m) == << "print", m >>

\* a check that lets a run without the tag go on
NoTagNever(tag_) == FALSE

\* if not associate_tag
NoTag(tag_) == ~Truthy(tag_)

\* lines 76-79: no tag, no run
MissingTag ==
  /\ pc = "start"
  /\ NoTag(env_tag)
  /\ pc' = "done"
  /\ UNCHANGED << env_tag, urls_file, urls, idx, products, details, url, asin,
                  attempt, response, trace, inflight, returns, built, surfaced, pauses,
                  markdown, post >>

\* lines 84-86: urls.txt is not there
UrlsNotFound ==
  /\ pc = "start"
  /\ ~NoTag(env_tag)
  /\ urls_file = None
  /\ pc' = "done"
  /\ UNCHANGED << env_tag, urls_file, urls, idx, products, details, url, asin,
                  attempt, response, trace, inflight, returns, built, surfaced, pauses,
                  markdown, post >>

\* lines 88-90: urls.txt holds no URL
UrlsEmpty ==
  /\ pc = "start"
  /\ ~NoTag(env_tag)
  /\ urls_file # None
  /\ ReadLines(urls_file[1]) = << >>
  /\ urls' = << >>
  /\ pc' = "done"
  /\ UNCHANGED << env_tag, urls_file, idx, products, details, url, asin, attempt,
                  response, trace, inflight, returns, built, surfaced, pauses, markdown,
                  post >>

\* lines 81-93: read the URLs and enter the loop
ReadUrls ==
  /\ pc = "start"
  /\ ~NoTag(env_tag)
  /\ urls_file # None
  /\ ReadLines(urls_file[1]) # << >>
  /\ urls' = ReadLines(urls_file[1])
  /\ products' = << >>
  /\ idx' = 1
  /\ pc' = "loop"
  /\ UNCHANGED << env_tag, urls_file, details, url, asin, attempt, response, trace,
                  inflight, returns, built, surfaced, pauses, markdown, post >>

(* ------------------------------------------------------------------ *)
(* get_product_details                                                  *)
(* ------------------------------------------------------------------ *)

\* line 95: the call for the next of urls[:5]
CallFetch ==
  /\ pc = "loop"
  /\ idx <= Len(FirstFive(urls))
  /\ url' = FirstFive(urls)[idx]
  /\ asin' = << >>
  /\ attempt' = 0
  /\ response' = None
  /\ trace' = << >>
  /\ pc' = "normalize"
  /\ UNCHANGED << env_tag, urls_file, urls, idx, products, details, inflight,
                  returns, built, surfaced, pauses, markdown, post >>

\* lines 13-16: no ASIN in the URL
InvalidUrl ==
  /\ pc = "normalize"
  /\ AsinSearch(url) = None
  /\ trace' = Append(trace, Printed("no_asin"))
  /\ details' = None
  /\ surfaced' = surfaced \cup { [kind |-> "InvalidUrl", value |-> None] }
  /\ pc' = "after_call"
  /\ UNCHANGED << env_tag, urls_file, urls, idx, products, url, asin, attempt,
                  response, inflight, returns, built, pauses, markdown, post >>

\* lines 13-18: the ASIN and the canonical URL
Canonicalize ==
  /\ pc = "normalize"
  /\ AsinSearch(url) # None
  /\ asin' = AsinSearch(url)[1]
  /\ attempt' = 0
  /\ pc' = "attempt"
  /\ UNCHANGED << env_tag, urls_file, urls, idx, products, details, url, response,
                  trace, inflight, returns, built, surfaced, pauses, markdown, post >>

\* a loop of four attempts
AttemptsLeftOneMore(n) == n < MaxAttempts + 1

\* for attempt in range(3)
AttemptsLeft(n) == n < MaxAttempts

\* lines 26-29: the GET of the canonical URL goes out
SendRequest ==
  /\ pc = "attempt"
  /\ AttemptsLeft(attempt)
  /\ trace' = trace \o << Printed("fetching"), Requested(NormalizedUrl(asin)) >>
  /\ inflight' = inflight \cup { idx }
  /\ pc' = "request"
  /\ UNCHANGED << env_tag, urls_file, urls, idx, products, details, url, asin,
                  attempt, response, returns, built, surfaced, pauses, markdown, post >>

\* time.sleep(2 * (attempt + 1)), whatever the attempt
SleepAfterFailure(n) == << Slept(Backoff(n)) >>

\* lines 29-30, 65-67: the request raised; sleep, next attempt
TransportError(r) ==
  /\ pc = "request"
  /\ RaisesRequestException(r)
  /\ response' = IF r.status = StatusNone THEN response ELSE Some(r)
  /\ trace' = trace \o << Received(r), Printed("error_fetching") >> \o SleepAfterFailure(attempt)
  /\ inflight' = inflight \ { idx }
  /\ attempt' = attempt + 1
  /\ pc' = "attempt"
  /\ UNCHANGED << env_tag, urls_file, urls, idx, products, details, url, asin,
                  returns, built, surfaced, pauses, markdown, post >>

\* lines 33-36: the CAPTCHA page; sleep, next attempt
Captcha(r) ==
  /\ pc = "request"
  /\ ~RaisesRequestException(r)
  /\ IsCaptcha(r)
  /\ response' = Some(r)
  /\ trace' = trace \o << Received(r), Printed("captcha") >> \o SleepAfterFailure(attempt)
  /\ inflight' = inflight \ { idx }
  /\ attempt' = attempt + 1
  /\ pc' = "attempt"
  /\ UNCHANGED << env_tag, urls_file, urls, idx, products, details, url, asin,
                  returns, built, surfaced, pauses, markdown, post >>

\* line 48: the image element has no src; the KeyError is caught nowhere
ImageKeyError(r) ==
  /\ pc = "request"
  /\ ~RaisesRequestException(r)
  /\ ~IsCaptcha(r)
  /\ ImageRaisesKeyError(r)
  /\ response' = Some(r)
  /\ trace' = Append(trace, Received(r))
  /\ inflight' = inflight \ { idx }
  /\ pc' = "crashed"
  /\ UNCHANGED << env_tag, urls_file, urls, idx, products, details, url, asin,
                  attempt, returns, built, surfaced, pauses, markdown, post >>

\* lines 38-53: title or price is missing
IncompleteExtraction(r) ==
  /\ pc = "request"
  /\ ~RaisesRequestException(r)
  /\ ~IsCaptcha(r)
  /\ ~ImageRaisesKeyError(r)
  /\ MissingTitleOrPrice(ElementText(r.title), ElementText(r.price))
  /\ response' = Some(r)
  /\ trace' = trace \o << Received(r), Printed("no_title_or_price") >>
  /\ inflight' = inflight \ { idx }
  /\ details' = None
  /\ surfaced' = surfaced \cup { [kind |-> "IncompleteExtraction", value |-> None] }
  /\ pc' = "after_call"
  /\ UNCHANGED << env_tag, urls_file, urls, idx, products, url, asin, attempt,
                  returns, built, pauses, markdown, post >>

\* lines 38-63: the record
ReturnRecord(r) ==
  /\ pc = "request"
  /\ ~RaisesRequestException(r)
  /\ ~IsCaptcha(r)
  /\ ~ImageRaisesKeyError(r)
  /\ ~MissingTitleOrPrice(ElementText(r.title), ElementText(r.price))
  /\ response' = Some(r)
  /\ trace' = trace \o << Received(r), Printed("success") >>
  /\ inflight' = inflight \ { idx }
  /\ details' = Some(ProductDict(r, asin, env_tag[1]))
  /\ pc' = "after_call"
  /\ UNCHANGED << env_tag, urls_file, urls, idx, products, url, asin, attempt,
                  returns, built, surfaced, pauses, markdown, post >>

\* lines 69-70: the loop ran out
Exhausted ==
  /\ pc = "attempt"
  /\ ~AttemptsLeft(attempt)
  /\ trace' = Append(trace, Printed("failed_after_3"))
  /\ details' = None
  /\ surfaced' = surfaced \cup { [kind |-> "TransportExhausted", value |-> None] }
  /\ pc' = "after_call"
  /\ UNCHANGED << env_tag, urls_file, urls, idx, products, url, asin, attempt,
                  response, inflight, returns, built, pauses, markdown, post >>

(* ------------------------------------------------------------------ *)
(* generate_post_from_urls: the loop, the post                          *)
(* ------------------------------------------------------------------ *)

\* a loop that puts the newest record first
AppendFirst(ps, d) == IF d # None THEN << d[1] >> \o ps ELSE ps

\* if details: products.append(details)
AppendDetails(ps, d) == IF d # None THEN Append(ps, d[1]) ELSE ps

\* lines 96-98: keep the record, pause, next URL
Collect ==
  /\ pc = "after_call"
  /\ products' = AppendDetails(products, details)
  /\ returns' = Append(returns, details)
  /\ built' = Append(built, IF details # None THEN response ELSE None)
  /\ pauses' = pauses + PauseSeconds
  /\ idx' = idx + 1
  /\ pc' = "loop"
  /\ UNCHANGED << env_tag, urls_file, urls, details, url, asin, attempt, response,
                  trace, inflight, surfaced, markdown, post >>

\* lines 100-102: not one record
NoProducts ==
  /\ pc = "loop"
  /\ idx > Len(FirstFive(urls))
  /\ products = << >>
  /\ pc' = "done"
  /\ UNCHANGED << env_tag, urls_file, urls, idx, products, details, url, asin,
                  attempt, response, trace, inflight, returns, built, surfaced, pauses,
                  markdown, post >>

\* ranks that start at 0
RankFromZero(i) == i - 1

\* rank = i + 1, i the position from 0 (here: from 1)
Rank(i) == i

\* lines 121-132: the section of the product at position i
Section(ps, i) ==
  [rank |-> Rank(i), title |-> StrOf(ps[i].title), image |-> StrOf(ps[i].image_url),
   price |-> StrOf(ps[i].price), url |-> ps[i].url]

\* lines 105-132: the front matter (TOP{len(products)}) and the sections
Markdown(ps) ==
  [top |-> Len(ps), sections |-> [i \in 1..Len(ps) |-> Section(ps, i)]]

\* lines 104-132: build the text of the post
RenderPost ==
  /\ pc = "loop"
  /\ idx > Len(FirstFive(urls))
  /\ products # << >>
  /\ markdown' = Some(Markdown(products))
  /\ pc' = "write"
  /\ UNCHANGED << env_tag, urls_file, urls, idx, products, details, url, asin,
                  attempt, response, trace, inflight, returns, built, surfaced, pauses,
                  post >>

\* lines 135-139: the file is written
WriteFile ==
  /\ pc = "write"
  /\ post' = markdown
  /\ pc' = "done"
  /\ UNCHANGED << env_tag, urls_file, urls, idx, products, details, url, asin,
                  attempt, response, trace, inflight, returns, built, surfaced, pauses,
                  markdown >>

\* lines 140-141: open or write raised (no content/posts directory)
WriteFileError ==
  /\ pc = "write"
  /\ pc' = "done"
  /\ UNCHANGED << env_tag, urls_file, urls, idx, products, details, url, asin,
                  attempt, response, trace, inflight, returns, built, surfaced, pauses,
                  markdown, post >>

(* ------------------------------------------------------------------ *)
(* Specifications                                                       *)
(* ------------------------------------------------------------------ *)

NextWith(site) ==
  \/ MissingTag
  \/ UrlsNotFound
  \/ UrlsEmpty
  \/ ReadUrls
  \/ CallFetch
  \/ InvalidUrl
  \/ Canonicalize
  \/ SendRequest
  \/ \E r \in site : TransportError(r)
  \/ \E r \in site : Captcha(r)
  \/ \E r \in site : ImageKeyError(r)
  \/ \E r \in site : IncompleteExtraction(r)
  \/ \E r \in site : ReturnRecord(r)
  \/ Exhausted
  \/ Collect
  \/ NoProducts
  \/ RenderPost
  \/ WriteFile
  \/ WriteFileError

Next == NextWith(BatchResponses)

NextFetch == NextWith(Responses)

\* the whole program on a urls.txt of up to MaxLines lines
Spec == Init /\ [][Next]_vars

\* the program on a one-line urls.txt, every kind of URL and of response
SpecFetch == InitFetch /\ [][NextFetch]_vars

\* the same, with the interpreter taking every step it can: a blocking call
\* returns (requests.get within its timeout of 10 seconds, time.sleep after its
\* delay), and the statement after it runs
SpecFetchFair == SpecFetch /\ WF_vars(NextFetch)

(* ------------------------------------------------------------------ *)
(* Reading the trace of a call                                          *)
(* ------------------------------------------------------------------ *)

IsRequest(e) == e[1] = "request"

IsResponse(e) == e[1] = "response"

IsSleep(e) == e[1] = "sleep"

IsPrint(e) == e[1] = "print"

Payloads(es) == [i \in 1..Len(es) |-> es[i][2]]

\* the addresses requested by the call, in order
RequestsOf(t) == Payloads(SelectSeq(t, IsRequest))

\* the responses the call received, in order
ResponsesOf(t) == Payloads(SelectSeq(t, IsResponse))

\* the delays the call waited, in order
SleepsOf(t) == Payloads(SelectSeq(t, IsSleep))

\* the messages the call printed, in order
PrintsOf(t) == Payloads(SelectSeq(t, IsPrint))

LastPrint(t) == PrintsOf(t)[Len(PrintsOf(t))]

\* the delays waited between two attempts: those a later request follows
DelaysBetweenAttempts(t) ==
  LET between(i) == IsSleep(t[i]) /\ \E j \in (i + 1)..Len(t) : IsRequest(t[j])
      RECURSIVE pick(_)
      pick(i) == IF i > Len(t) THEN << >>
                 ELSE IF between(i) THEN << t[i][2] >> \o pick(i + 1)
                 ELSE pick(i + 1)
  IN  pick(1)

StrictlyIncreasing(ns) == \A i \in 1..(Len(ns) - 1) : ns[i] < ns[i + 1]

RECURSIVE Sum(_)
Sum(ns) == IF ns = << >> THEN 0 ELSE Head(ns) + Sum(Tail(ns))

\* a retryable response: the transport failed, or the page is the challenge
IsTransportFailure(r) == r.status = StatusNone \/ r.status # StatusOk

IsChallenge(r) == r.status = StatusOk /\ r.marker

\* a page fetched normally: no transport failure, no challenge marker
IsNormalPage(r) == r.status = StatusOk /\ ~r.marker

\* the text a page shows under an anchor: nothing when the anchor is absent or blank
Shown(el) == IF el = None THEN << >> ELSE Strip(el[1])

HasTitleAndPrice(r) == Shown(r.title) # << >> /\ Shown(r.price) # << >>

Alnum == UpperDigit \cup Lower

\* the URL holds no run of ten alphanumeric characters
NoIdPattern(u) ==
  \A i \in 1..Len(u) :
    ~(i + AsinLen - 1 <= Len(u) /\ \A k \in 0..(AsinLen - 1) : u[i + k] \in Alnum)

\* the call has returned to the loop, which has not yet gone on
Returned == pc = "after_call"

\* the call is over: it returned, or an exception left it
CallOver == pc \in { "after_call", "crashed" }

InCall == pc \in { "normalize", "attempt", "request", "after_call", "crashed" }

(* ------------------------------------------------------------------ *)
(* Claims                                                               *)
(* ------------------------------------------------------------------ *)

\* C1: a URL without a run of ten alphanumeric characters makes the call return
\* None with the "no ASIN" warning, and the call sends no request and waits no
\* delay.
C1_InvalidUrlNoNetwork ==
  (InCall /\ NoIdPattern(url)) =>
    /\ RequestsOf(trace) = << >>
    /\ SleepsOf(trace) = << >>
    /\ inflight = {}
    /\ pc \in { "normalize", "after_call" }
    /\ Returned =>
         /\ details = None
         /\ trace = << Printed("no_asin") >>
         /\ [kind |-> "InvalidUrl", value |-> None] \in surfaced

C1_Witness ==
  /\ Returned
  /\ url = Strip(UrlShortId)
  /\ NoIdPattern(url)
  /\ details = None

\* C2: when every attempt of a call ends in a transport failure, the call sends
\* exactly three requests, the delays between consecutive attempts grow
\* strictly, and the call returns None with the "failed after 3 attempts"
\* message.
C2_TransportExhausted ==
  (/\ Returned
   /\ ResponsesOf(trace) # << >>
   /\ \A i \in 1..Len(ResponsesOf(trace)) : IsTransportFailure(ResponsesOf(trace)[i])) =>
    /\ Len(RequestsOf(trace)) = 3
    /\ Len(ResponsesOf(trace)) = 3
    /\ Len(DelaysBetweenAttempts(trace)) = 2
    /\ StrictlyIncreasing(DelaysBetweenAttempts(trace))
    /\ StrictlyIncreasing(SleepsOf(trace))
    /\ details = None
    /\ LastPrint(trace) = "failed_after_3"
    /\ [kind |-> "TransportExhausted", value |-> None] \in surfaced

C2_Witness ==
  /\ Returned
  /\ ResponsesOf(trace) = << ConnectionFailure, HttpFailure, ConnectionFailure >>
  /\ details = None
  /\ DelaysBetweenAttempts(trace) = << 2, 4 >>

\* what the record of a page must hold: the stripped title and price, the image
\* source when there is one, the affiliate URL of the ASIN with the tag
RecordOf(r, id, tag_) ==
  [title |-> Some(Shown(r.title)), price |-> Some(Shown(r.price)),
   url |-> << "https://www.amazon.co.jp/dp/" >> \o id \o << "/?tag=" >> \o tag_,
   image_url |-> IF r.image = None \/ r.image[1] = None THEN None ELSE r.image[1]]

\* the ASIN of the URLs of the inputs
IdOf(u) == IF u = Strip(UrlB) THEN AsinB ELSE AsinA

ChallengeTwiceThenProduct(t) ==
  /\ Len(ResponsesOf(t)) = 3
  /\ IsChallenge(ResponsesOf(t)[1])
  /\ IsChallenge(ResponsesOf(t)[2])
  /\ IsNormalPage(ResponsesOf(t)[3])
  /\ HasTitleAndPrice(ResponsesOf(t)[3])

\* C3: when attempts 1 and 2 bring the challenge page and attempt 3 a page with
\* title and price, the call returns the record of the third page, after
\* exactly three requests and exactly two delays.
C3_RecordAfterTwoChallenges ==
  (CallOver /\ ChallengeTwiceThenProduct(trace)) =>
    /\ Returned
    /\ details = Some(RecordOf(ResponsesOf(trace)[3], IdOf(url), env_tag[1]))
    /\ Len(RequestsOf(trace)) = 3
    /\ Len(SleepsOf(trace)) = 2

\* C3, on the pages whose image element, when there is one, has a src: the
\* record of the third page, three requests, two delays.
C3_RecordWhenImageHasSrc ==
  (/\ CallOver
   /\ ChallengeTwiceThenProduct(trace)
   /\ ResponsesOf(trace)[3].image # Some(None)) =>
    /\ Returned
    /\ details = Some(RecordOf(ResponsesOf(trace)[3], IdOf(url), env_tag[1]))
    /\ Len(RequestsOf(trace)) = 3
    /\ Len(SleepsOf(trace)) = 2

LastResponse(t) == ResponsesOf(t)[Len(ResponsesOf(t))]

\* the call ended on a normal page that lacks the title or the price
EndedOnPartialPage ==
  /\ CallOver
  /\ ResponsesOf(trace) # << >>
  /\ IsNormalPage(LastResponse(trace))
  /\ ~HasTitleAndPrice(LastResponse(trace))

\* the last response of the call is followed by no request and no delay
NothingAfterLastResponse(t) ==
  \A i \in 1..Len(t) :
    IsResponse(t[i]) /\ (\A j \in (i + 1)..Len(t) : ~IsResponse(t[j])) =>
      \A j \in (i + 1)..Len(t) : ~IsRequest(t[j]) /\ ~IsSleep(t[j])

\* C4: a normal page without title or price makes the call return None with the
\* "no title or price" warning at once: no request and no delay follow, and on
\* the first attempt exactly one request was sent.
C4_IncompleteNotRetried ==
  EndedOnPartialPage =>
    /\ Returned
    /\ details = None
    /\ LastPrint(trace) = "no_title_or_price"
    /\ NothingAfterLastResponse(trace)
    /\ Len(ResponsesOf(trace)) = 1 => Len(RequestsOf(trace)) = 1 /\ SleepsOf(trace) = << >>

\* C4, on the pages whose image element, when there is one, has a src.
C4_IncompleteWhenImageHasSrc ==
  (EndedOnPartialPage /\ LastResponse(trace).image # Some(None)) =>
    /\ Returned
    /\ details = None
    /\ LastPrint(trace) = "no_title_or_price"
    /\ NothingAfterLastResponse(trace)
    /\ Len(ResponsesOf(trace)) = 1 => Len(RequestsOf(trace)) = 1 /\ SleepsOf(trace) = << >>

NonEmptyText(opt) == opt # None /\ opt[1] # << >>

\* C5: a record is returned only with a non-empty title and a non-empty price;
\* every record of products has both, and a call that ended on a page without
\* one of them added nothing to products.
C5_RecordsComplete ==
  /\ \A i \in 1..Len(products) :
       NonEmptyText(products[i].title) /\ NonEmptyText(products[i].price)
  /\ (Returned /\ details # None) =>
       /\ NonEmptyText(details[1].title) /\ NonEmptyText(details[1].price)
       /\ HasTitleAndPrice(LastResponse(trace))
  /\ \A i \in 1..Len(returns) :
       returns[i] # None =>
         NonEmptyText(returns[i][1].title) /\ NonEmptyText(returns[i][1].price)
  /\ (pc = "loop" /\ idx > 1 /\ ResponsesOf(trace) # << >>
        /\ ~HasTitleAndPrice(LastResponse(trace))) =>
       returns[idx - 1] = None

C5_Witness ==
  /\ pc = "done"
  /\ Len(products) = 1
  /\ products[1].title = Some(<< "x" >>)
  /\ products[1].image_url = None
  /\ post # None

\* a partial page was dropped: title without price, nothing in products
C5_WitnessPartial ==
  /\ pc = "loop"
  /\ idx = 2
  /\ ResponsesOf(trace) # << >>
  /\ LastResponse(trace).title = Some(<< "y" >>)
  /\ LastResponse(trace).price = None
  /\ products = << >>

\* the records among what the calls returned, in call order
RECURSIVE Successes(_)
Successes(rs) ==
  IF rs = << >> THEN << >>
  ELSE IF Head(rs) # None THEN << Head(rs)[1] >> \o Successes(Tail(rs))
       ELSE Successes(Tail(rs))

\* the document shows one section per record of ps, numbered from 1 in the
\* order of ps, and the count of ps in its title
DocumentOf(doc, ps) ==
  /\ doc.top = Len(ps)
  /\ Len(doc.sections) = Len(ps)
  /\ \A i \in 1..Len(ps) :
       /\ doc.sections[i].rank = i
       /\ doc.sections[i].title = ps[i].title[1]
       /\ doc.sections[i].price = ps[i].price[1]
       /\ doc.sections[i].url = ps[i].url

\* C6: products holds exactly the records of the calls that succeeded among the
\* first five URLs, in the order of their URLs, and the document has one
\* section per record, numbered 1..k in that order, k being the count of its
\* title.
C6_BatchOrderAndSections ==
  /\ Len(returns) <= 5
  /\ pc \in { "loop", "write", "done" } /\ idx > 0 => Len(returns) = idx - 1
  /\ products = Successes(returns)
  /\ \A i \in 1..Len(returns) :
       returns[i] # None =>
         returns[i][1].url =
           << "https://www.amazon.co.jp/dp/" >> \o IdOf(urls[i]) \o << "/?tag=" >>
             \o env_tag[1]
  /\ markdown # None => DocumentOf(markdown[1], products)
  /\ post # None => DocumentOf(post[1], Successes(returns)) /\ Len(returns) = Len(FirstFive(urls))

\* five URLs, three of them fetched: the first, the third and the fourth
C6_Witness ==
  /\ post # None
  /\ Len(urls) = 5
  /\ Len(returns) = 5
  /\ returns[2] = None /\ returns[5] = None
  /\ Len(products) = 3
  /\ products[1].title = Some(<< "x" >>)
  /\ products[2].title = Some(<< "y" >>)
  /\ products[3].title = Some(<< "x" >>)
  /\ Len(post[1].sections) = 3
  /\ post[1].sections[3].rank = 3

C8_NoDelayAfterLastAttempt ==
  \A i \in 1..Len(trace) :
    IsSleep(trace[i]) =>
      Len(SelectSeq(SubSeq(trace, 1, i), IsRequest)) < 3

\* C9: the delays of one call add up to at most 6.
C9_TotalDelayAtMostSix == Sum(SleepsOf(trace)) <= 6

\* C10: extraction never raises: once a normal page has arrived the call
\* returns, a record or None, and no exception leaves it.
C10_ExtractionNeverRaises ==
  /\ pc # "crashed"
  /\ (CallOver /\ ResponsesOf(trace) # << >> /\ IsNormalPage(LastResponse(trace))) =>
       Returned

\* C11: network access is serialized: at most one request is on the wire, it
\* belongs to the call in progress, that call is for the next URL in input
\* order and began only after every earlier call had returned, and every
\* request of a call goes to the canonical address of that call's URL.
C11_SerializedInOrder ==
  /\ Cardinality(inflight) <= 1
  /\ inflight # {} => pc = "request" /\ inflight = { idx }
  /\ InCall =>
       /\ idx = Len(returns) + 1
       /\ idx <= Len(urls)
       /\ url = urls[idx]
       /\ \A i \in 1..Len(RequestsOf(trace)) :
            RequestsOf(trace)[i] = << "https://www.amazon.co.jp/dp/" >> \o IdOf(url)
  /\ pc = "request" => inflight = { idx }

\* the second request of the call for the third URL is on the wire, after a
\* delay, the two earlier calls having returned
C11_Witness ==
  /\ pc = "request"
  /\ idx = 3
  /\ inflight = { 3 }
  /\ Len(returns) = 2
  /\ urls[2] # urls[3]
  /\ Len(RequestsOf(trace)) = 2
  /\ SleepsOf(trace) = << 2 >>

\* how many of the input URLs the run is to fetch: all of them, five at most
ToFetch == IF Len(urls) < 5 THEN Len(urls) ELSE 5

\* the run is over: the program returned, or an exception ended it
RunOver == pc \in { "done", "crashed" }

\* C12: a fetch that fails does not stop the batch: when the run is over every
\* one of the first five URLs has been fetched, and the post is rendered if and
\* only if at least one fetch gave a record.
C12_BatchSurvivesFailures ==
  /\ (RunOver /\ urls # << >>) => Len(returns) = ToFetch
  /\ (pc = "done" /\ urls # << >>) => (markdown # None <=> Successes(returns) # << >>)
  /\ pc = "write" => Len(returns) = ToFetch /\ Successes(returns) # << >>

\* the input URLs that name the product AsinA: plain, with path noise and query
\* parameters, with one more character after the identifier
SameProductUrls == { Strip(UrlA), Strip(UrlANoisy), Strip(UrlLongId) }

\* C13: the address requested and the affiliate URL of the record are fixed by
\* the identifier and the tag alone: the URLs of one product, however they
\* differ in path noise and query parameters, all lead to the one canonical
\* address and the one affiliate URL of that product.
C13_CanonicalFromIdentifierOnly ==
  /\ (InCall /\ url \in SameProductUrls) =>
       /\ \A i \in 1..Len(RequestsOf(trace)) :
            RequestsOf(trace)[i] = << "https://www.amazon.co.jp/dp/" >> \o AsinA
       /\ (Returned /\ details # None) =>
            details[1].url =
              << "https://www.amazon.co.jp/dp/" >> \o AsinA \o << "/?tag=" >> \o env_tag[1]
  /\ (InCall /\ url = Strip(UrlB)) =>
       /\ \A i \in 1..Len(RequestsOf(trace)) :
            RequestsOf(trace)[i] = << "https://www.amazon.co.jp/dp/" >> \o AsinB
       /\ (Returned /\ details # None) =>
            details[1].url =
              << "https://www.amazon.co.jp/dp/" >> \o AsinB \o << "/?tag=" >> \o env_tag[1]

\* the noisy URL of the product was fetched on the second attempt and gave a record
C13_Witness ==
  /\ Returned
  /\ url = Strip(UrlANoisy)
  /\ url # Strip(UrlA)
  /\ Len(RequestsOf(trace)) = 2
  /\ details # None

\* C14: without ASSOCIATE_TAG in the environment the run stops before any work:
\* no URL is read, no call is made, no request is sent, no delay and no pause
\* is waited, and no post is rendered or written.
C14_NoTagNoWork ==
  env_tag = None =>
    /\ pc \in { "start", "done" }
    /\ urls = << >>
    /\ url = << >>
    /\ returns = << >>
    /\ trace = << >>
    /\ inflight = {}
    /\ pauses = 0
    /\ markdown = None
    /\ post = None

\* the run is over without the tag, although urls.txt holds a product URL
C14_Witness ==
  /\ env_tag = None
  /\ pc = "done"
  /\ urls_file = Some(<< UrlA >>)
  /\ post = None

\* C15: two calls that get the same page content return records with the same
\* title, price and image; these three fields are fixed by the page alone (the
\* stripped title and price, the image source or None), so only the affiliate
\* URL carries the tag.
C15_SameContentSameRecord ==
  /\ Len(built) = Len(returns)
  /\ \A i \in 1..Len(returns) : \A j \in 1..Len(returns) :
       (built[i] # None /\ built[i] = built[j]) =>
         /\ returns[i] # None /\ returns[j] # None
         /\ returns[i][1].title = returns[j][1].title
         /\ returns[i][1].price = returns[j][1].price
         /\ returns[i][1].image_url = returns[j][1].image_url
  /\ \A i \in 1..Len(returns) :
       built[i] # None =>
         /\ returns[i][1].title = Some(Shown(built[i][1].title))
         /\ returns[i][1].price = Some(Shown(built[i][1].price))
         /\ returns[i][1].image_url =
              (IF built[i][1].image = None THEN None ELSE built[i][1].image[1])

\* the first and the third call got the same page, the first at once and the
\* third after a retry; the second got another page
C15_Witness ==
  /\ Len(returns) = 3
  /\ pc = "loop"
  /\ built[1] # None
  /\ built[1] = built[3]
  /\ built[2] # None
  /\ built[2] # built[1]
  /\ Len(RequestsOf(trace)) = 2
  /\ returns[1] = returns[3]

\* a response that costs an attempt: a transport failure or the challenge page
IsRetryable(r) == IsTransportFailure(r) \/ IsChallenge(r)

\* no request follows a response that was a normal page
NoRequestAfterNormalPage(t) ==
  \A i \in 1..Len(t) :
    (IsResponse(t[i]) /\ IsNormalPage(t[i][2])) =>
      \A j \in (i + 1)..Len(t) : ~IsRequest(t[j])

\* the call ended by the return of line 70
ReturnedExhausted == Returned /\ details = None /\ LastPrint(trace) = "failed_after_3"

CallRunning == pc \in { "normalize", "attempt", "request" }

\* C16: whatever the responses, a call sends at most three requests and sends
\* none after a normal page (the one that gave the record or the missing title
\* or price); it returns by the "failed after 3 attempts" exit exactly when it
\* got three responses, each a transport failure or a challenge page; and
\* every call that starts comes to an end.
C16_AtMostThreeRequestsAndEnds ==
  /\ [](Len(RequestsOf(trace)) <= 3)
  /\ [](NoRequestAfterNormalPage(trace))
  /\ [](Returned =>
          (ReturnedExhausted <=>
             /\ Len(ResponsesOf(trace)) = 3
             /\ \A i \in 1..3 : IsRetryable(ResponsesOf(trace)[i])))
  /\ (CallRunning ~> ~CallRunning)

\* a call that returned a record on its third request, after two retryable
\* responses of different kinds
C16_Witness ==
  /\ Returned
  /\ details # None
  /\ Len(RequestsOf(trace)) = 3
  /\ IsTransportFailure(ResponsesOf(trace)[1])
  /\ IsChallenge(ResponsesOf(trace)[2])

\* the number of responses among the first i events
ResponsesUpTo(t, i) == Len(ResponsesOf(SubSeq(t, 1, i)))

\* C17: the k-th response of a call, when it is the challenge page or a
\* transport failure, is followed by its message and then a delay of 2 * k,
\* the same for both; it costs one attempt, so the attempts used are the
\* retryable responses received, and nothing else is followed by a delay.
C17_ChallengeRetriedLikeTransport ==
  /\ \A i \in 1..Len(trace) :
       (IsResponse(trace[i]) /\ IsRetryable(trace[i][2])) =>
         /\ i + 2 <= Len(trace)
         /\ trace[i + 1] = << "print", IF IsChallenge(trace[i][2]) THEN "captcha"
                                        ELSE "error_fetching" >>
         /\ trace[i + 2] = << "sleep", 2 * ResponsesUpTo(trace, i) >>
  /\ \A i \in 1..Len(trace) :
       IsSleep(trace[i]) =>
         /\ i > 2
         /\ IsResponse(trace[i - 2])
         /\ IsRetryable(trace[i - 2][2])
  /\ pc \in { "attempt", "request" } =>
       /\ attempt = Len(SleepsOf(trace))
       /\ \A k \in 1..Len(ResponsesOf(trace)) : IsRetryable(ResponsesOf(trace)[k])
  /\ Len(SleepsOf(trace)) <= 3

\* a call whose three attempts were lost to a challenge, a transport failure
\* and a challenge again
C17_Witness ==
  /\ Returned
  /\ Len(ResponsesOf(trace)) = 3
  /\ IsChallenge(ResponsesOf(trace)[1])
  /\ IsTransportFailure(ResponsesOf(trace)[2])
  /\ IsChallenge(ResponsesOf(trace)[3])
  /\ SleepsOf(trace) = << 2, 4, 6 >>

IsPrefix(s, t) == Len(s) <= Len(t) /\ SubSeq(t, 1, Len(s)) = s

\* what holds of every state: the call in progress is for one of the first five
\* non-empty lines, it has sent at most three requests, and at most five calls
\* have returned, each adding at most one record
C18_WithinFirstFive ==
  /\ InCall =>
       /\ idx \in 1..5
       /\ idx <= Len(urls)
       /\ url = urls[idx]
       /\ idx = Len(returns) + 1
  /\ Len(RequestsOf(trace)) <= 3
  /\ inflight \subseteq 1..5
  /\ Len(returns) <= 5
  /\ Len(products) = Len(Successes(returns))
  /\ Len(products) <= 5
  /\ urls_file # None => (urls = << >> \/ urls = ReadLines(urls_file[1]))

\* what holds of every step: a position once returned from is never called
\* again, and the requests of a call only grow until the next call starts
C18_EachPositionOnce ==
  /\ IsPrefix(returns, returns')
  /\ Len(returns') <= Len(returns) + 1
  /\ \/ IsPrefix(RequestsOf(trace), RequestsOf(trace'))
     \/ pc = "loop" /\ pc' = "normalize" /\ trace' = << >>
  /\ pc' = "normalize" => pc = "loop" /\ idx' = idx

\* C18: only the first five non-empty lines are fetched. A call is made for
\* position 1 to 5 only, each position once and in turn, and it sends at most
\* three requests, so a run sends at most 5 * 3 = 15 requests and yields at
\* most five records; a line at position six or later is never the URL of a
\* call, however few of the first five gave a record.
C18_OnlyFirstFiveFetched == [](C18_WithinFirstFive) /\ [][C18_EachPositionOnce]_vars

\* a finished run over six lines of which the sixth has a valid address, where
\* five calls returned and only two gave a record
C18_Witness ==
  /\ pc = "done"
  /\ Len(urls) = 6
  /\ AsinSearch(urls[6]) # None
  /\ Len(returns) = 5
  /\ Len(products) = 2
  /\ markdown # None

\* a page with a title and a price and without the image element
HasNoImageElement(r) == IsNormalPage(r) /\ HasTitleAndPrice(r) /\ r.image = None

\* the position in products of the record returned by the i-th call
PositionOf(rs, i) == Len(Successes(SubSeq(rs, 1, i)))

\* C19: a page with title and price and no image element ends the call with a
\* record whose image_url is None; the record is appended to products like the
\* others, and its section has the rank of its position and the same fields
\* as any section, the image address being the text of None.
C19_RecordWithoutImage ==
  /\ (CallOver /\ ResponsesOf(trace) # << >> /\ HasNoImageElement(LastResponse(trace))) =>
       /\ Returned
       /\ details # None
       /\ details[1].image_url = None
       /\ details[1].title = Some(Shown(LastResponse(trace).title))
       /\ details[1].price = Some(Shown(LastResponse(trace).price))
  /\ \A i \in 1..Len(returns) :
       (built[i] # None /\ HasNoImageElement(built[i][1])) =>
         /\ returns[i] # None
         /\ returns[i][1].image_url = None
         /\ PositionOf(returns, i) \in 1..Len(products)
         /\ products[PositionOf(returns, i)] = returns[i][1]
         /\ markdown # None =>
              LET k == PositionOf(returns, i)
                  section == markdown[1].sections[k]
              IN  /\ DOMAIN section = { "rank", "title", "image", "price", "url" }
                  /\ section.rank = k
                  /\ section.title = returns[i][1].title[1]
                  /\ section.price = returns[i][1].price[1]
                  /\ section.url = returns[i][1].url
                  /\ section.image = << "None" >>
                  /\ markdown[1].top = Len(products)

\* a written post of two sections, the first from a page with an image and the
\* second from a page without the image element
C19_Witness ==
  /\ post # None
  /\ Len(returns) = 3
  /\ returns[1] # None /\ returns[1][1].image_url # None
  /\ returns[2] = None
  /\ built[3] # None /\ HasNoImageElement(built[3][1])
  /\ Len(post[1].sections) = 2
  /\ post[1].sections[1].image = ImageSrc
  /\ post[1].sections[2].image = << "None" >>
  /\ post[1].sections[2].rank = 2

\* C20: the loop pauses one second after every one of the first five URLs,
\* whatever its call returned and also after the last one: the pauses taken
\* are one per call made so far, and a run that is over has taken one pause
\* for each of the URLs it had to fetch.
C20_PauseAfterEveryUrl ==
  /\ pauses = Len(returns)
  /\ pc = "loop" => pauses = idx - 1
  /\ (RunOver /\ urls # << >>) => pauses = ToFetch

====
